---- MODULE Spec2Model ----
(***************************************************************************)
(* A model of src/main.cpp: the lexer (gettok), the recursive-descent      *)
(* operator-precedence parser and the driver loop (MainLoop).              *)
(*                                                                         *)
(* Characters are integers, as in the program: a byte read from standard   *)
(* input is 0..255, EOF is -1, a token is a negative enumerator or the     *)
(* value of the character.  Strings are sequences of characters.           *)
(*                                                                         *)
(* The lexer state and the parser state are globals of the program; the    *)
(* parse functions are operators that take the globals as a record s and   *)
(* return the value the function returns (node) with the globals after     *)
(* the call (st).  One action is one whole iteration of MainLoop.          *)
(***************************************************************************)
EXTENDS Integers, Sequences, FiniteSets, TLC

VARIABLES
  input,           \* the bytes standard input delivers, then end-of-file
  char_signed,     \* whether plain char is a signed type in this build
  ctype_neg,       \* what <cctype> answers for a negative char (see isspace)
  pos,             \* number of bytes getchar has delivered so far
  last_char,       \* gettok's static char last_char
  identifier_str,  \* static std::string identifier_str
  num_val,         \* static double num_val
  curr_token,      \* static int curr_token
  BinopPrecedence, \* static std::unordered_map<char, int> BinopPrecedence
  pc,              \* "main": before main's priming; "loop": in MainLoop; "done": returned
  ready,           \* number of "ready> " prompts written to stderr (see Prompted)
  ntokens,         \* number of calls of getNextToken so far (see Counted)
  eof_reads,       \* number of calls of getchar that returned EOF; 2 is "more than one"
  form,            \* how the text on standard input was made (never changes)
  last             \* what the latest MainLoop iteration did (observation only)

vars == <<input, char_signed, ctype_neg, pos, last_char, identifier_str,
          num_val, curr_token, BinopPrecedence, pc, ready, ntokens, eof_reads,
          form, last>>

----------------------------------------------------------------------------
(* Characters and tokens *)

\* The character literals the program and the inputs use (ASCII codes).
ASCII ==
  (" " :> 32) @@ ("\n" :> 10) @@ ("\r" :> 13) @@ ("#" :> 35) @@ ("(" :> 40) @@
  (")" :> 41) @@ ("*" :> 42) @@ ("+" :> 43) @@ ("," :> 44) @@ ("-" :> 45) @@
  ("." :> 46) @@ ("0" :> 48) @@ ("1" :> 49) @@ ("2" :> 50) @@ ("3" :> 51) @@
  ("4" :> 52) @@ ("5" :> 53) @@ ("6" :> 54) @@ ("7" :> 55) @@ ("8" :> 56) @@
  ("9" :> 57) @@ (";" :> 59) @@ ("<" :> 60) @@ ("=" :> 61) @@ ("D" :> 68) @@
  ("E" :> 69) @@ ("F" :> 70) @@ ("a" :> 97) @@ ("b" :> 98) @@ ("d" :> 100) @@
  ("e" :> 101) @@ ("f" :> 102) @@ ("g" :> 103) @@ ("h" :> 104) @@ ("i" :> 105) @@
  ("n" :> 110) @@ ("o" :> 111) @@ ("r" :> 114) @@ ("s" :> 115) @@ ("t" :> 116) @@
  ("x" :> 120) @@ ("y" :> 121)

\* A string literal, as the sequence of its characters.
Str(chars) == [i \in 1..Len(chars) |-> ASCII[chars[i]]]

EOF == -1

token_eof == -1
token_def == -2
token_extern == -3
token_identifier == -4
token_number == -5

\* <cctype> in the "C" locale (the program never calls setlocale).  The
\* argument is an int; for EOF and for the bytes 128..255 every test is false.
\* The program passes last_char, a char: where char is signed a byte above
\* 127 arrives as a negative value, and for one that is not EOF the call is
\* undefined.  ctype_neg is what this build answers then: "none" (every
\* test false), or the one class whose tests it answers with true.
CtypeOutcomes == {"none", "space", "alpha", "digit"}
OutOfRange(c) == c < EOF
isspace(c) == IF OutOfRange(c) THEN ctype_neg = "space"
              ELSE c \in {9, 10, 11, 12, 13, 32}
isdigit(c) == IF OutOfRange(c) THEN ctype_neg = "digit" ELSE c \in 48..57
isalpha(c) == IF OutOfRange(c) THEN ctype_neg = "alpha"
              ELSE c \in (65..90) \cup (97..122)
isalnum(c) == isalpha(c) \/ isdigit(c)
\* isascii(c): c has no bit set outside the low seven.
isascii(c) == c \in 0..127

\* The conversion of getchar's int to the char it is stored in: a byte
\* above 127 and EOF wrap to the char's range, which depends on the build.
ToChar(v) == IF char_signed
               THEN (IF v >= 128 THEN v - 256 ELSE v)
               ELSE v % 256

----------------------------------------------------------------------------
(* Lexer *)

\* getchar(): the next byte of standard input, or EOF once it is exhausted.
\* The record of the globals carries the text standard input delivers.
getchar(s) == IF s.pos < Len(s.input) THEN s.input[s.pos + 1] ELSE EOF

\* last_char = getchar();
ReadChar(s) ==
  [s EXCEPT !.last_char = ToChar(getchar(s)),
            !.pos = IF @ < Len(s.input) THEN @ + 1 ELSE @,
            !.eof_reads = IF s.pos < Len(s.input) THEN @
                          ELSE IF @ = 0 THEN 1 ELSE 2]

\* while (isspace(last_char)) last_char = getchar();
RECURSIVE SkipWhitespace(_)
SkipWhitespace(s) ==
  IF isspace(s.last_char) THEN SkipWhitespace(ReadChar(s)) ELSE s

\* The loop of the identifier stopping at the first character not a letter.
RECURSIVE LexIdentifier_LettersOnly(_)
LexIdentifier_LettersOnly(s) ==
  LET Rest(t) ==
        IF isalpha(t.last_char)
          THEN LexIdentifier_LettersOnly(
                 [t EXCEPT !.identifier_str = Append(@, t.last_char)])
          ELSE t
  IN Rest(ReadChar(s))

\* while (isalnum((last_char = getchar()))) identifier_str += last_char;
RECURSIVE LexIdentifier(_)
LexIdentifier(s) ==
  LET Rest(t) ==
        IF isalnum(t.last_char)
          THEN LexIdentifier([t EXCEPT !.identifier_str = Append(@, t.last_char)])
          ELSE t
  IN Rest(ReadChar(s))

\* do { num_str += last_char; last_char = getchar(); }
\* while (isdigit(last_char) || last_char == '.');
RECURSIVE LexNumber(_, _)
LexNumber(s, num_str) ==
  LET Rest(str, t) ==
        IF isdigit(t.last_char) \/ t.last_char = ASCII["."]
          THEN LexNumber(t, str)
          ELSE [num_str |-> str, st |-> t]
  IN Rest(Append(num_str, s.last_char), ReadChar(s))

\* The digits of the longest prefix of str made of digits.
RECURSIVE Digits(_)
Digits(str) ==
  IF str # <<>> /\ Head(str) \in 48..57
    THEN <<Head(str) - 48>> \o Digits(Tail(str))
    ELSE <<>>

\* The value of a digit sequence read as a decimal integer.
RECURSIVE Decimal(_)
Decimal(ds) ==
  IF ds = <<>> THEN 0 ELSE 10 * Decimal(SubSeq(ds, 1, Len(ds) - 1)) + ds[Len(ds)]

\* A digit sequence without its trailing zeros.
RECURSIVE StripZeros(_)
StripZeros(ds) ==
  IF ds # <<>> /\ ds[Len(ds)] = 0
    THEN StripZeros(SubSeq(ds, 1, Len(ds) - 1))
    ELSE ds

\* strtod(num_str, 0) on a string of digits and '.': the value of the longest
\* prefix that is a decimal floating constant (digits, at most one '.',
\* digits), 0 when there is none.  The double is kept as its integer part
\* and its fraction digits, so that "1", "1." and "1.0" are one value and
\* "1.2.3" is the value of "1.2".
strtod(num_str) ==
  LET Fraction(rest) ==
        IF rest # <<>> /\ Head(rest) = ASCII["."] THEN Digits(Tail(rest)) ELSE <<>>
      Value(ip) ==
        [int  |-> Decimal(ip),
         frac |-> StripZeros(Fraction(SubSeq(num_str, Len(ip) + 1, Len(num_str))))]
  IN Value(Digits(num_str))

\* do { last_char = getchar(); }
\* while (last_char != EOF && last_char != '\n' && last_char != '\r');
\* When getchar has returned EOF and the loop goes on, it goes on for ever:
\* every later getchar returns EOF again.  hang marks the call that never
\* returns.
RECURSIVE SkipComment(_)
SkipComment(s) ==
  LET Rest(t) ==
        IF t.last_char # EOF /\ t.last_char # ASCII["\n"] /\ t.last_char # ASCII["\r"]
          THEN IF s.pos < Len(s.input) THEN SkipComment(t)
               ELSE [t EXCEPT !.hang = TRUE]
          ELSE t
  IN Rest(ReadChar(s))

str_def == Str(<<"d", "e", "f">>)
str_extern == Str(<<"e", "x", "t", "e", "r", "n">>)

\* A return of the character that looks at the parser's current token: the
\* character is returned in lower case after an identifier.
ReturnChar_AfterIdentifier(s) ==
  [ret |-> IF s.curr_token = token_identifier THEN s.last_char + 32 ELSE s.last_char,
   st  |-> ReadChar(s)]

\* int this_char = last_char; last_char = getchar(); return this_char;
ReturnChar(s) == [ret |-> s.last_char, st |-> ReadChar(s)]

\* gettok(): the token returned (ret) and the globals after the call (st).
\* A call that never returns (hang) has no token: ret is then the character
\* in hand, every later call does nothing, and the step of the program
\* that made the call ends in pc = "hung" (see Store).
RECURSIVE gettok(_)
gettok(s) ==
  LET Identifier(t) ==
        [ret |-> IF t.identifier_str = str_def THEN token_def
                 ELSE IF t.identifier_str = str_extern THEN token_extern
                 ELSE token_identifier,
         st  |-> t]
      Number(r) ==
        [ret |-> token_number, st |-> [r.st EXCEPT !.num_val = strtod(r.num_str)]]
      Comment(t) ==
        IF t.hang THEN [ret |-> t.last_char, st |-> t]
        ELSE IF t.last_char # EOF THEN gettok(t) ELSE ReturnChar(t)
      Token(t) ==
        IF isalpha(t.last_char)
          THEN Identifier(LexIdentifier([t EXCEPT !.identifier_str = <<t.last_char>>]))
        ELSE IF isdigit(t.last_char) \/ t.last_char = ASCII["."]
          THEN Number(LexNumber(t, <<>>))
        ELSE IF t.last_char = ASCII["#"]
          THEN Comment(SkipComment(t))
        ELSE IF t.last_char = EOF
          THEN [ret |-> token_eof, st |-> t]
        ELSE ReturnChar(t)
  IN IF s.hang THEN [ret |-> s.last_char, st |-> s]
     ELSE Token(SkipWhitespace(s))

----------------------------------------------------------------------------
(* Abstract syntax tree *)

nullptr == [type |-> "nullptr"]

NumberExprAST(Val) == [type |-> "Number", Val |-> Val]
VariableExprAST(Name) == [type |-> "Variable", Name |-> Name]
BinaryExprAST(Op, LHS, RHS) ==
  [type |-> "Binary", Op |-> Op, LHS |-> LHS, RHS |-> RHS]
CallExprAST(Callee, Args) == [type |-> "Call", Callee |-> Callee, Args |-> Args]
PrototypeAST(Name, Args) == [type |-> "Prototype", Name |-> Name, Args |-> Args]
FunctionAST(Prototype, Body) ==
  [type |-> "Function", Prototype |-> Prototype, Body |-> Body]

----------------------------------------------------------------------------
(* Logger *)

\* LogError / LogErrorP: one line on stderr, and the null pointer.  Each
\* line is kept with the current token and the number of tokens the
\* iteration had read when it was written.
LogError(s, Str_) ==
  [node |-> nullptr,
   st   |-> [s EXCEPT !.log = Append(@, [msg |-> Str_, tok |-> s.curr_token,
                                         ntok |-> s.ntok])]]

----------------------------------------------------------------------------
(* Parser *)

\* getNextToken(): curr_token = gettok().  ntok counts the calls made in
\* the current MainLoop iteration.
getNextToken(s) ==
  LET Set(r) == [r.st EXCEPT !.curr_token = r.ret, !.ntok = @ + 1]
  IN Set(gettok(s))

\* ParseNumberExpr leaving the number as the current token.
ParseNumberExpr_NotEaten(s) == [node |-> NumberExprAST(s.num_val), st |-> s]

\* ParseNumberExpr(): a NumberExprAST of num_val; the number is eaten.
ParseNumberExpr(s) ==
  [node |-> NumberExprAST(s.num_val), st |-> getNextToken(s)]

\* GetTokenPrecedence without the test for a precedence that is not positive.
GetTokenPrecedence_NonPositive(s) ==
  LET Lookup(map) ==
        [ret |-> map[s.curr_token], st |-> [s EXCEPT !.BinopPrecedence = map]]
  IN IF ~isascii(s.curr_token) THEN [ret |-> -1, st |-> s]
     ELSE Lookup(IF s.curr_token \in DOMAIN s.BinopPrecedence
                   THEN s.BinopPrecedence
                   ELSE s.BinopPrecedence @@ (s.curr_token :> 0))

\* GetTokenPrecedence(): the precedence of curr_token as a binary operator,
\* -1 when it is none.  operator[] inserts 0 for a character not in the map.
GetTokenPrecedence(s) ==
  LET Lookup(map) ==
        [ret |-> IF map[s.curr_token] <= 0 THEN -1 ELSE map[s.curr_token],
         st  |-> [s EXCEPT !.BinopPrecedence = map]]
  IN IF ~isascii(s.curr_token) THEN [ret |-> -1, st |-> s]
     ELSE Lookup(IF s.curr_token \in DOMAIN s.BinopPrecedence
                   THEN s.BinopPrecedence
                   ELSE s.BinopPrecedence @@ (s.curr_token :> 0))

RECURSIVE ParseExpression(_)
RECURSIVE ParsePrimary(_)
RECURSIVE ParseParenExpr(_)
RECURSIVE ParseIdentifierExpr(_)
RECURSIVE ParseArguments(_, _)
RECURSIVE ParseBinOpRHS(_, _, _)

\* ParseParenExpr with the ')' left as the current token.
ParseParenExpr_ParenNotEaten(s) ==
  LET Close(V) ==
        IF V.node = nullptr THEN V
        ELSE IF V.st.curr_token # ASCII[")"] THEN LogError(V.st, "expected ')'")
        ELSE [node |-> V.node, st |-> V.st]
  IN Close(ParseExpression(getNextToken(s)))

\* ParseParenExpr that skips the offending token after reporting it.
ParseParenExpr_SkipOnError(s) ==
  LET Close(V) ==
        IF V.node = nullptr THEN V
        ELSE IF V.st.curr_token # ASCII[")"]
          THEN [node |-> nullptr,
                st   |-> getNextToken(LogError(V.st, "expected ')'").st)]
        ELSE [node |-> V.node, st |-> getNextToken(V.st)]
  IN Close(ParseExpression(getNextToken(s)))

\* ParseParenExpr(): '(' expression ')'.
ParseParenExpr(s) ==
  LET Close(V) ==
        IF V.node = nullptr THEN V
        ELSE IF V.st.curr_token # ASCII[")"] THEN LogError(V.st, "expected ')'")
        ELSE [node |-> V.node, st |-> getNextToken(V.st)]
  IN Close(ParseExpression(getNextToken(s)))

\* The loop of ParseIdentifierExpr leaving the list at whatever is not ','.
ParseArguments_BreakOnOther(s, Args) ==
  LET Pushed(Arg) ==
        IF Arg.node = nullptr THEN [ok |-> FALSE, Args |-> Args, st |-> Arg.st]
        ELSE IF Arg.st.curr_token # ASCII[","]
          THEN [ok |-> TRUE, Args |-> Append(Args, Arg.node), st |-> Arg.st]
        ELSE ParseArguments(getNextToken(Arg.st), Append(Args, Arg.node))
  IN Pushed(ParseExpression(s))

\* The while (true) loop of ParseIdentifierExpr: one argument, then ')' or ','.
ParseArguments(s, Args) ==
  LET Pushed(Arg) ==
        IF Arg.node = nullptr THEN [ok |-> FALSE, Args |-> Args, st |-> Arg.st]
        ELSE IF Arg.st.curr_token = ASCII[")"]
          THEN [ok |-> TRUE, Args |-> Append(Args, Arg.node), st |-> Arg.st]
        ELSE IF Arg.st.curr_token # ASCII[","]
          THEN [ok |-> FALSE, Args |-> Append(Args, Arg.node),
                st |-> LogError(Arg.st, "Expected ')' or ',' in argument list").st]
        ELSE ParseArguments(getNextToken(Arg.st), Append(Args, Arg.node))
  IN Pushed(ParseExpression(s))

\* ParseIdentifierExpr with the callee taken from identifier_str when the
\* node is built, not when the identifier is the current token.
ParseIdentifierExpr_LateName(s) ==
  LET Call(a) ==
        IF ~a.ok THEN [node |-> nullptr, st |-> a.st]
        ELSE [node |-> CallExprAST(a.st.identifier_str, a.Args),
              st   |-> getNextToken(a.st)]
      Open(t) ==
        Call(IF t.curr_token # ASCII[")"]
               THEN ParseArguments(t, <<>>)
               ELSE [ok |-> TRUE, Args |-> <<>>, st |-> t])
      Eaten(t) ==
        IF t.curr_token # ASCII["("]
          THEN [node |-> VariableExprAST(t.identifier_str), st |-> t]
          ELSE Open(getNextToken(t))
  IN Eaten(getNextToken(s))

\* ParseIdentifierExpr(): identifier, or identifier '(' expression* ')'.
ParseIdentifierExpr(s) ==
  LET Call(id_name, a) ==
        IF ~a.ok THEN [node |-> nullptr, st |-> a.st]
        ELSE [node |-> CallExprAST(id_name, a.Args), st |-> getNextToken(a.st)]
      Open(id_name, t) ==
        Call(id_name, IF t.curr_token # ASCII[")"]
                        THEN ParseArguments(t, <<>>)
                        ELSE [ok |-> TRUE, Args |-> <<>>, st |-> t])
      Eaten(id_name, t) ==
        IF t.curr_token # ASCII["("]
          THEN [node |-> VariableExprAST(id_name), st |-> t]
          ELSE Open(id_name, getNextToken(t))
  IN Eaten(s.identifier_str, getNextToken(s))

\* ParsePrimary(): identifierexpr, numberexpr or parenexpr.
ParsePrimary(s) ==
  IF s.curr_token = token_identifier THEN ParseIdentifierExpr(s)
  ELSE IF s.curr_token = token_number THEN ParseNumberExpr(s)
  ELSE IF s.curr_token = ASCII["("] THEN ParseParenExpr(s)
  ELSE LogError(s, "Unknown token when expecting an expression")

\* ParseBinOpRHS with the right-hand side grown from token_precedence, not
\* from token_precedence + 1.
ParseBinOpRHS_SamePrecedence(s, expression_precedence, LHS) ==
  LET Merge(binary_operator, RHS) ==
        IF RHS.node = nullptr THEN RHS
        ELSE ParseBinOpRHS(RHS.st, expression_precedence,
                           BinaryExprAST(binary_operator, LHS, RHS.node))
      Ahead(token_precedence, binary_operator, RHS, next) ==
        Merge(binary_operator,
              IF token_precedence < next.ret
                THEN ParseBinOpRHS(next.st, token_precedence, RHS.node)
                ELSE [node |-> RHS.node, st |-> next.st])
      Right(token_precedence, binary_operator, RHS) ==
        IF RHS.node = nullptr THEN RHS
        ELSE Ahead(token_precedence, binary_operator, RHS,
                   GetTokenPrecedence(RHS.st))
      Pass(tp) ==
        IF tp.ret < expression_precedence THEN [node |-> LHS, st |-> tp.st]
        ELSE Right(tp.ret, tp.st.curr_token, ParsePrimary(getNextToken(tp.st)))
  IN Pass(GetTokenPrecedence(s))

\* ParseBinOpRHS with the next operator taken into the right-hand side when
\* it binds as tightly as the one just eaten (<= for <, and the right-hand
\* side grown from token_precedence): operators group to the right.
ParseBinOpRHS_RightAssoc(s, expression_precedence, LHS) ==
  LET Merge(binary_operator, RHS) ==
        IF RHS.node = nullptr THEN RHS
        ELSE ParseBinOpRHS(RHS.st, expression_precedence,
                           BinaryExprAST(binary_operator, LHS, RHS.node))
      Ahead(token_precedence, binary_operator, RHS, next) ==
        Merge(binary_operator,
              IF token_precedence <= next.ret
                THEN ParseBinOpRHS(next.st, token_precedence, RHS.node)
                ELSE [node |-> RHS.node, st |-> next.st])
      Right(token_precedence, binary_operator, RHS) ==
        IF RHS.node = nullptr THEN RHS
        ELSE Ahead(token_precedence, binary_operator, RHS,
                   GetTokenPrecedence(RHS.st))
      Pass(tp) ==
        IF tp.ret < expression_precedence THEN [node |-> LHS, st |-> tp.st]
        ELSE Right(tp.ret, tp.st.curr_token, ParsePrimary(getNextToken(tp.st)))
  IN Pass(GetTokenPrecedence(s))

\* ParseBinOpRHS(expression_precedence, LHS): the pairs (operator, primary)
\* that follow LHS; one unfolding is one pass of the while (true) loop.
ParseBinOpRHS(s, expression_precedence, LHS) ==
  LET Merge(binary_operator, RHS) ==
        IF RHS.node = nullptr THEN RHS
        ELSE ParseBinOpRHS(RHS.st, expression_precedence,
                           BinaryExprAST(binary_operator, LHS, RHS.node))
      Ahead(token_precedence, binary_operator, RHS, next) ==
        Merge(binary_operator,
              IF token_precedence < next.ret
                THEN ParseBinOpRHS(next.st, token_precedence + 1, RHS.node)
                ELSE [node |-> RHS.node, st |-> next.st])
      Right(token_precedence, binary_operator, RHS) ==
        IF RHS.node = nullptr THEN RHS
        ELSE Ahead(token_precedence, binary_operator, RHS,
                   GetTokenPrecedence(RHS.st))
      Pass(tp) ==
        IF tp.ret < expression_precedence THEN [node |-> LHS, st |-> tp.st]
        ELSE Right(tp.ret, tp.st.curr_token, ParsePrimary(getNextToken(tp.st)))
  IN Pass(GetTokenPrecedence(s))

\* ParseExpression(): primary binoprhs.
ParseExpression(s) ==
  LET Rest(LHS) ==
        IF LHS.node = nullptr THEN LHS ELSE ParseBinOpRHS(LHS.st, 0, LHS.node)
  IN Rest(ParsePrimary(s))

\* while (getNextToken() == token_identifier) ArgNames.push_back(identifier_str);
RECURSIVE ReadArgNames(_, _)
ReadArgNames(s, ArgNames) ==
  LET Rest(t) ==
        IF t.curr_token = token_identifier
          THEN ReadArgNames(t, Append(ArgNames, t.identifier_str))
          ELSE [ArgNames |-> ArgNames, st |-> t]
  IN Rest(getNextToken(s))

\* ParsePrototype with the function name taken from identifier_str after
\* the argument names are read.
ParsePrototype_LateName(s) ==
  LET Close(a) ==
        IF a.st.curr_token # ASCII[")"]
          THEN LogError(a.st, "Expected ')' in prototype")
          ELSE [node |-> PrototypeAST(a.st.identifier_str, a.ArgNames),
                st   |-> getNextToken(a.st)]
      Named(t) ==
        IF t.curr_token # ASCII["("] THEN LogError(t, "Expected '(' in prototype")
        ELSE Close(ReadArgNames(t, <<>>))
  IN IF s.curr_token # token_identifier
       THEN LogError(s, "Expected function name in prototype")
       ELSE Named(getNextToken(s))

\* ParsePrototype(): identifier '(' identifier* ')'.
ParsePrototype(s) ==
  LET Close(func_name, a) ==
        IF a.st.curr_token # ASCII[")"]
          THEN LogError(a.st, "Expected ')' in prototype")
          ELSE [node |-> PrototypeAST(func_name, a.ArgNames),
                st   |-> getNextToken(a.st)]
      Named(func_name, t) ==
        IF t.curr_token # ASCII["("] THEN LogError(t, "Expected '(' in prototype")
        ELSE Close(func_name, ReadArgNames(t, <<>>))
  IN IF s.curr_token # token_identifier
       THEN LogError(s, "Expected function name in prototype")
       ELSE Named(s.identifier_str, getNextToken(s))

\* ParseDefinition reporting the failure of its body once more.
ParseDefinition_ReportsAgain(s) ==
  LET Body(Prototype, E) ==
        IF E.node # nullptr
          THEN [node |-> FunctionAST(Prototype.node, E.node), st |-> E.st]
          ELSE LogError(E.st, "Expected an expression in definition")
      Header(Prototype) ==
        IF Prototype.node = nullptr THEN Prototype
        ELSE Body(Prototype, ParseExpression(Prototype.st))
  IN Header(ParsePrototype(getNextToken(s)))

\* ParseDefinition(): 'def' prototype expression.
ParseDefinition(s) ==
  LET Body(Prototype, E) ==
        IF E.node # nullptr
          THEN [node |-> FunctionAST(Prototype.node, E.node), st |-> E.st]
          ELSE E
      Header(Prototype) ==
        IF Prototype.node = nullptr THEN Prototype
        ELSE Body(Prototype, ParseExpression(Prototype.st))
  IN Header(ParsePrototype(getNextToken(s)))

\* ParseExtern(): 'extern' prototype.
ParseExtern(s) == ParsePrototype(getNextToken(s))

\* ParseTopLevelExpr giving the wrapper a name.
ParseTopLevelExpr_Named(s) ==
  LET Wrap(E) ==
        IF E.node # nullptr
          THEN [node |-> FunctionAST(PrototypeAST(Str(<<"a", "n", "o", "n">>), <<>>),
                                     E.node),
                st   |-> E.st]
          ELSE E
  IN Wrap(ParseExpression(s))

\* ParseTopLevelExpr(): an expression, as the body of an anonymous function.
ParseTopLevelExpr(s) ==
  LET Wrap(E) ==
        IF E.node # nullptr
          THEN [node |-> FunctionAST(PrototypeAST(<<>>, <<>>), E.node), st |-> E.st]
          ELSE E
  IN Wrap(ParseExpression(s))

\* The handlers without the skip for error recovery.
Handle_NoSkip(parsed) == [parsed |-> parsed, st |-> parsed.st]

\* HandleDefinition / HandleExtern / HandleTopLevelExpression: on a parse
\* that failed, one token is skipped.  parsed is what the parse returned.
Handle(parsed) ==
  [parsed |-> parsed,
   st     |-> IF parsed.node # nullptr THEN parsed.st ELSE getNextToken(parsed.st)]

HandleDefinition(s) == Handle(ParseDefinition(s))
HandleExtern(s) == Handle(ParseExtern(s))
HandleTopLevelExpression(s) == Handle(ParseTopLevelExpr(s))

----------------------------------------------------------------------------
(* Inputs: the texts standard input is drawn from.  A form says how a text  *)
(* is made, and for the well-formed ones which tree the grammar gives it.   *)

MaxOps == 3      \* operators in a chain  p1 op p2 op ... pn
MaxDepth == 2    \* pairs of parentheses around an expression
MaxArgs == 2     \* arguments of a call
MaxParams == 2   \* parameters of a prototype
MaxToks == 3     \* pieces of a free text
MaxBlanks == 3   \* pieces of a text of whitespace and comments
MaxWord == 3     \* characters of a word over the letters and digits d, e, f, 1
MaxPieces == 3   \* pieces of a text of tokens and comments
MaxForms == 3    \* top-level forms in a text of well-formed forms

RECURSIVE Concat(_)
Concat(ss) == IF ss = <<>> THEN <<>> ELSE Head(ss) \o Concat(Tail(ss))

SeqsUpTo(S, lo, hi) == UNION { [1..n -> S] : n \in lo..hi }

\* The binary operators of the default configuration and their strengths.
BinOps == {ASCII["<"], ASCII["+"], ASCII["-"], ASCII["*"]}
RefPrec(op) ==
  CASE op = ASCII["<"] -> 100
    [] op = ASCII["+"] -> 200
    [] op = ASCII["-"] -> 200
    [] op = ASCII["*"] -> 300

\* The i-th primary of a chain: the number i, or the variable xi.
PrimText(i) == IF i % 2 = 1 THEN <<48 + i>> ELSE <<ASCII["x"], 48 + i>>
Num(i) == NumberExprAST([int |-> i, frac |-> <<>>])
PrimTree(i) == IF i % 2 = 1 THEN Num(i) ELSE VariableExprAST(PrimText(i))

\* p1 ops[1] p2 ops[2] ... p(n+1)
RECURSIVE ChainText(_)
ChainText(ops) ==
  IF Len(ops) = 0 THEN PrimText(1)
  ELSE ChainText(SubSeq(ops, 1, Len(ops) - 1))
         \o <<ops[Len(ops)]>> \o PrimText(Len(ops) + 1)

\* The reference grouping of the primaries lo..hi of a chain: split at the
\* weakest operator, the rightmost of the weakest ones, and group each side.
RECURSIVE RefTree(_, _, _)
RefTree(ops, lo, hi) ==
  IF lo = hi THEN PrimTree(lo)
  ELSE
    LET k == CHOOSE k \in lo..(hi - 1) :
               \A j \in lo..(hi - 1) :
                 \/ RefPrec(ops[k]) < RefPrec(ops[j])
                 \/ RefPrec(ops[k]) = RefPrec(ops[j]) /\ j <= k
    IN BinaryExprAST(ops[k], RefTree(ops, lo, k), RefTree(ops, k + 1, hi))
ChainTree(ops) == RefTree(ops, 1, Len(ops) + 1)

\* The left-nested tree of the first n operators of a chain.
RECURSIVE LeftTree(_, _)
LeftTree(ops, n) ==
  IF n = 0 THEN PrimTree(1)
  ELSE BinaryExprAST(ops[n], LeftTree(ops, n - 1), PrimTree(n + 1))

Repeat(c, n) == [i \in 1..n |-> c]

\* The argument expressions of the calls, with their trees.
ArgExprs ==
  << [text |-> Str(<<"1">>), tree |-> Num(1)],
     [text |-> Str(<<"g">>), tree |-> VariableExprAST(Str(<<"g">>))],
     [text |-> Str(<<"g", "(", "2", ")">>),
      tree |-> CallExprAST(Str(<<"g">>), <<Num(2)>>)],
     [text |-> Str(<<"1", "+", "g">>),
      tree |-> BinaryExprAST(ASCII["+"], Num(1), VariableExprAST(Str(<<"g">>)))],
     [text |-> Str(<<"(", "g", ")">>), tree |-> VariableExprAST(Str(<<"g">>))] >>

RECURSIVE ArgsText(_)
ArgsText(args) ==
  IF Len(args) = 0 THEN <<>>
  ELSE IF Len(args) = 1 THEN ArgExprs[args[1]].text
  ELSE ArgsText(SubSeq(args, 1, Len(args) - 1))
         \o <<ASCII[","]>> \o ArgExprs[args[Len(args)]].text
ArgsTrees(args) == [i \in 1..Len(args) |-> ArgExprs[args[i]].tree]

Names == {Str(<<"f">>), Str(<<"f", "g">>)}
ParamNames == {Str(<<"a">>), Str(<<"b">>), Str(<<"x", "1">>)}

RECURSIVE ParamsText(_)
ParamsText(ps) ==
  IF Len(ps) = 0 THEN <<>>
  ELSE IF Len(ps) = 1 THEN ps[1]
  ELSE ParamsText(SubSeq(ps, 1, Len(ps) - 1)) \o <<ASCII[" "]>> \o ps[Len(ps)]

\* name '(' p1 ... pn ')'
ProtoText(name, ps) == name \o <<ASCII["("]>> \o ParamsText(ps) \o <<ASCII[")"]>>

\* What may follow an extern: a text, and the token its first piece is.
\* read is the number of its bytes the lexer has read when that token is
\* the current one: the token and one character of lookahead.
Follows ==
  << [text |-> Str(<<";", " ", "7">>), tok |-> ASCII[";"], read |-> 2],
     [text |-> Str(<<" ", "1", " ", "7">>), tok |-> token_number, read |-> 3],
     [text |-> Str(<<"x", " ", "7">>), tok |-> token_identifier, read |-> 2],
     [text |-> Str(<<"d", "e", "f", " ", "7">>), tok |-> token_def, read |-> 4],
     [text |-> <<>>, tok |-> token_eof, read |-> 0] >>

\* What may stand where a closing ')' is missing.
Tails ==
  << <<>>, Str(<<";">>), Str(<<" ", "7">>), Str(<<" ", "y">>),
     Str(<<" ", "d", "e", "f", " ", "y", "(", ")", "1">>) >>

\* The pieces free texts are made of.
Lexemes ==
  { Str(<<"1">>), Str(<<"a">>), Str(<<"+">>), Str(<<"*">>), Str(<<"(">>),
    Str(<<")">>), Str(<<",">>), Str(<<";">>), Str(<<"d", "e", "f", " ">>),
    Str(<<"e", "x", "t", "e", "r", "n", " ">>) }

ChainForms ==
  { [fam |-> "chain", ops |-> o] : o \in SeqsUpTo(BinOps, 0, MaxOps) }
ParenForms ==
  { [fam |-> "paren", depth |-> d, ops |-> o, tail |-> t] :
      d \in 1..MaxDepth, o \in SeqsUpTo(BinOps, 0, 2), t \in {0} \cup BinOps }
CallForms ==
  { [fam |-> "call", callee |-> c, sp |-> b, args |-> a] :
      c \in Names, b \in BOOLEAN, a \in SeqsUpTo(1..Len(ArgExprs), 0, MaxArgs) }
VarForms ==
  { [fam |-> "var", name |-> c, tail |-> t] : c \in Names, t \in 1..Len(Tails) }
DefForms ==
  { [fam |-> "def", name |-> c, params |-> ps, ops |-> o] :
      c \in Names, ps \in SeqsUpTo(ParamNames, 0, MaxParams),
      o \in SeqsUpTo({ASCII["+"], ASCII["*"]}, 0, 1) }
ExternForms ==
  { [fam |-> "extern", name |-> c, params |-> ps, follow |-> w] :
      c \in Names, ps \in SeqsUpTo(ParamNames, 0, MaxParams),
      w \in 1..Len(Follows) }
\* An expression whose closing ')' is missing: '(' chain, f '(' chain or
\* f '(' 1 ',' chain, after the lead and before the tail.
UnclosedForms ==
  { [fam |-> "unclosed", open |-> k, lead |-> l, ops |-> o, tail |-> t] :
      k \in {"paren", "call", "call2"}, l \in {"", "3*", "def"},
      o \in SeqsUpTo(BinOps, 0, 1), t \in 1..Len(Tails) }
\* The pieces of a text of whitespace and comments: a space, a line break,
\* and comments, ended by '\r' or by whatever comes next.
Blanks ==
  { Str(<<" ">>), Str(<<"\n">>), Str(<<"#">>), Str(<<"#", "1", "a">>),
    Str(<<"#", "a", "\r">>) }
BlankForms ==
  { [fam |-> "blank", pieces |-> ls] : ls \in SeqsUpTo(Blanks, 0, MaxBlanks) }
\* One byte, any of the 256, alone or before a digit.
ByteForms ==
  { [fam |-> "byte", c |-> c, alone |-> b] : c \in 0..255, b \in BOOLEAN }
\* One byte, any of the 256, where a binary operator may stand: 1 c 2 c 3.
OperatorForms == { [fam |-> "operator", c |-> c] : c \in 0..255 }
\* Words: a letter, then letters and digits.  All the words of up to MaxWord
\* characters over d, e, f, 1, and the keywords with their neighbours; each
\* before the end of the text, a space, a '(' or a '.'.
Words ==
  { <<l>> \o w : l \in {ASCII["d"], ASCII["e"], ASCII["f"]},
                 w \in SeqsUpTo({ASCII["d"], ASCII["e"], ASCII["f"], ASCII["1"]},
                                0, MaxWord - 1) }
    \cup { str_def, str_extern, str_def \o Str(<<"1">>), str_def \o Str(<<"f">>),
           str_def \o Str(<<"i", "n", "e">>), str_extern \o Str(<<"s">>),
           SubSeq(str_extern, 1, 5), Str(<<"x">>) \o str_def,
           Str(<<"D", "e", "f">>), Str(<<"D", "E", "F">>) }
WordEnds == { <<>>, Str(<<" ">>), Str(<<"(">>), Str(<<".">>) }
WordForms == { [fam |-> "word", word |-> w, end |-> e] : w \in Words, e \in WordEnds }
\* The pieces of a text of tokens and comments: an identifier, a '(', a
\* line break, and comments: to the end of what follows, to a space inside
\* it, to a '\r'.
Commented ==
  { Str(<<"a">>), Str(<<"(">>), Str(<<"\n">>), Str(<<"#">>),
    Str(<<"#", "b", " ">>), Str(<<"#", "1", "\r">>) }
CommentForms ==
  { [fam |-> "comment", pieces |-> ls] : ls \in SeqsUpTo(Commented, 1, MaxPieces) }
\* The pieces of a text with bytes above 127 in it: an identifier, the
\* start of a comment, a line break, the bytes 254 and 255, and a comment
\* up to a byte 255.
Bytes ==
  { Str(<<"a">>), Str(<<"#">>), Str(<<"\n">>), <<254>>, <<255>>,
    <<ASCII["#"], 255>> }
BytesForms ==
  { [fam |-> "bytes", pieces |-> ls] : ls \in SeqsUpTo(Bytes, 1, MaxPieces) }
\* Well-formed top-level forms: the text, the handler it is for, the number
\* of its tokens and the first of them.
Items ==
  << [text |-> Str(<<"y">>), kind |-> "expr", ntok |-> 1, first |-> token_identifier],
     [text |-> Str(<<"x", "*", "(", "2", ")">>), kind |-> "expr", ntok |-> 5,
      first |-> token_identifier],
     [text |-> Str(<<"1", "+", "f", "(", "1", ",", "g", ")">>), kind |-> "expr",
      ntok |-> 8, first |-> token_number],
     [text |-> Str(<<"d", "e", "f", " ", "f", "(", "a", " ", "b", ")", " ", "a", "+", "1">>),
      kind |-> "def", ntok |-> 9, first |-> token_def],
     [text |-> Str(<<"e", "x", "t", "e", "r", "n", " ", "g", "(", ")">>),
      kind |-> "extern", ntok |-> 4, first |-> token_extern] >>
\* One to MaxForms of them, each followed by a space or each by a ';'.
SequenceForms ==
  { [fam |-> "sequence", items |-> is, semi |-> b] :
      is \in SeqsUpTo(1..Len(Items), 1, MaxForms), b \in BOOLEAN }
FreeForms ==
  { [fam |-> "free", pieces |-> ls] : ls \in SeqsUpTo(Lexemes, 0, MaxToks) }

Text(f) ==
  CASE f.fam = "chain" -> ChainText(f.ops)
    [] f.fam = "paren" ->
         Repeat(ASCII["("], f.depth) \o ChainText(f.ops)
           \o Repeat(ASCII[")"], f.depth)
           \o (IF f.tail = 0 THEN <<>> ELSE <<f.tail, ASCII["7"]>>)
    [] f.fam = "call" ->
         f.callee \o (IF f.sp THEN <<ASCII[" "]>> ELSE <<>>) \o <<ASCII["("]>>
           \o ArgsText(f.args) \o <<ASCII[")"]>>
    [] f.fam = "var" -> f.name \o Tails[f.tail]
    [] f.fam = "def" ->
         Str(<<"d", "e", "f", " ">>) \o ProtoText(f.name, f.params)
           \o <<ASCII[" "]>> \o ChainText(f.ops)
    [] f.fam = "extern" ->
         Str(<<"e", "x", "t", "e", "r", "n", " ">>) \o ProtoText(f.name, f.params)
           \o Follows[f.follow].text
    [] f.fam = "unclosed" ->
         (CASE f.lead = "" -> <<>>
            [] f.lead = "3*" -> Str(<<"3", "*">>)
            [] f.lead = "def" -> Str(<<"d", "e", "f", " ", "h", "(", "a", ")", " ">>))
           \o (CASE f.open = "paren" -> Str(<<"(">>)
                 [] f.open = "call" -> Str(<<"f", "(">>)
                 [] f.open = "call2" -> Str(<<"f", "(", "1", ",">>))
           \o ChainText(f.ops) \o Tails[f.tail]
    [] f.fam = "free" -> Concat(f.pieces)
    [] f.fam = "blank" -> Concat(f.pieces)
    [] f.fam = "sequence" ->
         Concat([i \in 1..Len(f.items) |->
                   Items[f.items[i]].text
                     \o (IF f.semi THEN Str(<<";">>) ELSE Str(<<" ">>))])
    [] f.fam = "bytes" -> Concat(f.pieces)
    [] f.fam = "comment" -> Concat(f.pieces)
    [] f.fam = "word" -> f.word \o f.end
    [] f.fam = "operator" -> <<ASCII["1"], f.c, ASCII["2"], f.c, ASCII["3"]>>
    [] f.fam = "byte" -> <<f.c>> \o (IF f.alone THEN <<>> ELSE Str(<<"1">>))
    [] f.fam = "cut" -> f.text

\* A well-formed form cut short.
CutForms ==
  UNION { { [fam |-> "cut", text |-> SubSeq(Text(g), 1, k)] :
              k \in 1..(Len(Text(g)) - 1) } :
            g \in ParenForms \cup CallForms \cup DefForms \cup ExternForms }

Forms ==
  ChainForms \cup ParenForms \cup CallForms \cup VarForms \cup DefForms
    \cup ExternForms \cup UnclosedForms \cup FreeForms \cup CutForms
    \cup BlankForms \cup ByteForms \cup OperatorForms \cup WordForms
    \cup CommentForms \cup BytesForms \cup SequenceForms

----------------------------------------------------------------------------
(* Driver *)

\* The globals, as the record the parse functions take.  ntok and log are
\* the tokens read and the error lines written in the current iteration.
Globals ==
  [input |-> input, pos |-> pos, last_char |-> last_char, identifier_str |-> identifier_str,
   num_val |-> num_val, curr_token |-> curr_token,
   BinopPrecedence |-> BinopPrecedence, eof_reads |-> eof_reads,
   hang |-> FALSE, ntok |-> 0, log |-> <<>>]

\* The count of tokens stops at Len(input) + 2: a text has at most as many
\* tokens as bytes, so from there on every token read is past its end.
Counted(n) == IF n > Len(input) + 2 THEN Len(input) + 2 ELSE n

\* The count of prompts stops at Len(input) + 3: main writes one, and each
\* iteration of MainLoop one, the iteration that returns included.
Prompted(n) == IF n > Len(input) + 3 THEN Len(input) + 3 ELSE n

\* Where a step of the program ends: where it was going, unless a call of
\* gettok in it never returns.
After(s, to) == IF s.hang THEN "hung" ELSE to

Store(s) ==
  /\ ntokens' = Counted(ntokens + s.ntok)
  /\ eof_reads' = s.eof_reads
  /\ pos' = s.pos
  /\ last_char' = s.last_char
  /\ identifier_str' = s.identifier_str
  /\ num_val' = s.num_val
  /\ curr_token' = s.curr_token
  /\ BinopPrecedence' = s.BinopPrecedence

\* What an iteration is remembered by: the form dispatched, the token it was
\* dispatched on, what the parse returned, the tokens read by the parse and
\* by the whole iteration, the current token and the count of tokens when
\* the parse returned, the error lines, and whether it was the first one.
Observed(kind, node, parse_st, st) ==
  [kind |-> kind, tok |-> curr_token, node |-> node,
   parse_ntok |-> parse_st.ntok, ntok |-> st.ntok,
   parse_tok |-> parse_st.curr_token,
   parse_index |-> Counted(ntokens + parse_st.ntok),
   log |-> st.log, first |-> (last.kind = "main")]

\* The end of an iteration that called a handler.
Handled(kind, h) ==
  /\ Store(h.st)
  /\ last' = IF h.st.hang THEN [kind |-> "hung"]
              ELSE Observed(kind, h.parsed.node, h.parsed.st, h.st)
  /\ ready' = Prompted(ready + 1)
  /\ pc' = After(h.st, pc)
  /\ UNCHANGED <<input, form, char_signed, ctype_neg>>

Init ==
  /\ form \in Forms
  /\ input = Text(form)
  /\ char_signed \in BOOLEAN
  /\ ctype_neg \in IF char_signed /\ \E i \in 1..Len(input) : OutOfRange(ToChar(input[i]))
                    THEN CtypeOutcomes ELSE {"none"}
  /\ pos = 0
  /\ last_char = ASCII[" "]
  /\ identifier_str = <<>>
  /\ num_val = [int |-> 0, frac |-> <<>>]
  /\ curr_token = 0
  /\ BinopPrecedence = <<>>
  /\ pc = "main"
  /\ ready = 0
  /\ ntokens = 0
  /\ eof_reads = 0
  /\ last = [kind |-> "none"]

\* main(): the standard binary operators, the first prompt, the first token.
Main ==
  /\ pc = "main"
  /\ LET Primed(s) ==
           /\ Store(s)
           /\ last' = [kind |-> After(s, "main")]
           /\ pc' = After(s, "loop")
     IN Primed(getNextToken([Globals EXCEPT !.BinopPrecedence =
                               (ASCII["<"] :> 100) @@ (ASCII["+"] :> 200) @@
                               (ASCII["-"] :> 200) @@ (ASCII["*"] :> 300)]))
  /\ ready' = Prompted(ready + 1)
  /\ UNCHANGED <<input, form, char_signed, ctype_neg>>

\* MainLoop, case token_eof: return.
MainLoopEof ==
  /\ pc = "loop"
  /\ curr_token = token_eof
  /\ pc' = "done"
  /\ ready' = Prompted(ready + 1)
  /\ last' = Observed("eof", nullptr, Globals, Globals)
  /\ UNCHANGED <<input, form, char_signed, ctype_neg, pos, last_char,
                 identifier_str, num_val, curr_token, BinopPrecedence, ntokens,
                 eof_reads>>

\* MainLoop, case ';': ignore top-level semicolons.
MainLoopSemicolon ==
  /\ pc = "loop"
  /\ curr_token = ASCII[";"]
  /\ Handled(";", [parsed |-> [node |-> nullptr, st |-> Globals],
                   st |-> getNextToken(Globals)])

\* MainLoop, case token_def: HandleDefinition().
MainLoopDefinition ==
  /\ pc = "loop"
  /\ curr_token = token_def
  /\ Handled("def", HandleDefinition(Globals))

\* MainLoop, case token_extern: HandleExtern().
MainLoopExtern ==
  /\ pc = "loop"
  /\ curr_token = token_extern
  /\ Handled("extern", HandleExtern(Globals))

\* MainLoop, default: HandleTopLevelExpression().
MainLoopTopLevelExpression ==
  /\ pc = "loop"
  /\ curr_token \notin {token_eof, ASCII[";"], token_def, token_extern}
  /\ Handled("expr", HandleTopLevelExpression(Globals))

Next ==
  \/ Main
  \/ MainLoopEof
  \/ MainLoopSemicolon
  \/ MainLoopDefinition
  \/ MainLoopExtern
  \/ MainLoopTopLevelExpression

Spec == Init /\ [][Next]_vars

----------------------------------------------------------------------------
(* Claims *)

\* The anonymous function ParseTopLevelExpr wraps an expression in.
Anonymous(Body) == FunctionAST(PrototypeAST(<<>>, <<>>), Body)

\* The first iteration of MainLoop has dispatched a form of this kind.
FirstForm(kind) == last.kind = kind /\ last.first

\* C1: in a chain p1 op p2 op ... pn the tighter-binding operators group
\* first: the tree is the one the reference grouping gives; for a op1 b op2 c
\* it is (op1, a, (op2, b, c)) when op2 is the stronger and
\* (op2, (op1, a, b), c) when op1 is the stronger.
C1_PrecedenceGrouping ==
  (form.fam = "chain" /\ FirstForm("expr")) =>
    /\ last.node = Anonymous(ChainTree(form.ops))
    /\ (Len(form.ops) = 2 /\ RefPrec(form.ops[2]) > RefPrec(form.ops[1])) =>
         last.node.Body =
           BinaryExprAST(form.ops[1], PrimTree(1),
                         BinaryExprAST(form.ops[2], PrimTree(2), PrimTree(3)))
    /\ (Len(form.ops) = 2 /\ RefPrec(form.ops[1]) > RefPrec(form.ops[2])) =>
         last.node.Body =
           BinaryExprAST(form.ops[2],
                         BinaryExprAST(form.ops[1], PrimTree(1), PrimTree(2)),
                         PrimTree(3))

\* "1+x2*3" has been parsed to (+, 1, (*, x2, 3)).
C1_Witness ==
  /\ form = [fam |-> "chain", ops |-> <<ASCII["+"], ASCII["*"]>>]
  /\ FirstForm("expr")
  /\ last.node = Anonymous(BinaryExprAST(ASCII["+"], Num(1),
                   BinaryExprAST(ASCII["*"], PrimTree(2), Num(3))))

\* C2: a chain whose operators all have the same precedence groups to the
\* left: (op, (op, (..., p1, p2), ...), pn).
SamePrecedence(ops) ==
  \A i, j \in 1..Len(ops) : RefPrec(ops[i]) = RefPrec(ops[j])

C2_LeftAssociative ==
  (form.fam = "chain" /\ SamePrecedence(form.ops) /\ FirstForm("expr")) =>
    last.node = Anonymous(LeftTree(form.ops, Len(form.ops)))

\* "1-x2+3" has been parsed to (+, (-, 1, x2), 3).
C2_Witness ==
  /\ form = [fam |-> "chain", ops |-> <<ASCII["-"], ASCII["+"]>>]
  /\ FirstForm("expr")
  /\ last.node = Anonymous(BinaryExprAST(ASCII["+"],
                   BinaryExprAST(ASCII["-"], Num(1), PrimTree(2)), Num(3)))

\* C3: '(' E ')' parses to the tree of E, with no node for the parentheses,
\* and is one primary for the operator that follows: (E) op 7 is (op, E, 7)
\* whatever the precedences.
C3_ParenIsPrimary ==
  (form.fam = "paren" /\ FirstForm("expr")) =>
    last.node = Anonymous(IF form.tail = 0
                            THEN ChainTree(form.ops)
                            ELSE BinaryExprAST(form.tail, ChainTree(form.ops), Num(7)))

\* "(1+x2)*7" has been parsed to (*, (+, 1, x2), 7).
C3_Witness ==
  /\ form = [fam |-> "paren", depth |-> 1, ops |-> <<ASCII["+"]>>, tail |-> ASCII["*"]]
  /\ FirstForm("expr")
  /\ last.node = Anonymous(BinaryExprAST(ASCII["*"],
                   BinaryExprAST(ASCII["+"], Num(1), PrimTree(2)), Num(7)))

\* C4: f '(' e1 ',' ... ',' en ')' parses to the call of f, the text of the
\* identifier token f, with the trees of e1..en in order (none for n = 0);
\* an identifier not followed by '(' parses to the variable of that name.
C4_CallAndVariable ==
  /\ (form.fam = "call" /\ FirstForm("expr")) =>
       last.node = Anonymous(CallExprAST(form.callee, ArgsTrees(form.args)))
  /\ (form.fam = "var" /\ FirstForm("expr")) =>
       last.node = Anonymous(VariableExprAST(form.name))

\* "fg(g,g(2))" has been parsed to the call of fg with the arguments g, g(2).
C4_Witness ==
  /\ form = [fam |-> "call", callee |-> Str(<<"f", "g">>), sp |-> FALSE,
             args |-> <<2, 3>>]
  /\ FirstForm("expr")
  /\ last.node.Body.Callee = Str(<<"f", "g">>)
  /\ Len(last.node.Body.Args) = 2

\* C5: 'def' name '(' p1 ... pn ')' body parses to the function of that name
\* and those parameters in order with the tree of the body; 'extern' name
\* '(' p1 ... pn ')' parses to that prototype alone, having read the n + 4
\* tokens of the form and the one after them, which is the current token,
\* and no byte beyond that token and the one character of lookahead.
C5_DefinitionAndExtern ==
  /\ (form.fam = "def" /\ FirstForm("def")) =>
       last.node = FunctionAST(PrototypeAST(form.name, form.params),
                               ChainTree(form.ops))
  /\ (form.fam = "extern" /\ FirstForm("extern")) =>
       /\ last.node = PrototypeAST(form.name, form.params)
       /\ last.ntok = Len(form.params) + 4
       /\ Follows[form.follow].text # <<>> =>
            /\ curr_token = Follows[form.follow].tok
            /\ pos = Len(input) - Len(Follows[form.follow].text)
                       + Follows[form.follow].read

\* "extern fg(a x1) 1 7" has been parsed to the prototype of fg(a x1).
C5_Witness ==
  /\ form = [fam |-> "extern", name |-> Str(<<"f", "g">>),
             params |-> <<Str(<<"a">>), Str(<<"x", "1">>)>>, follow |-> 2]
  /\ FirstForm("extern")
  /\ last.node = PrototypeAST(Str(<<"f", "g">>), <<Str(<<"a">>), Str(<<"x", "1">>)>>)
  /\ curr_token = token_number

Parses == {"def", "extern", "expr"}

MissingParen ==
  {"expected ')'", "Expected ')' or ',' in argument list"}

\* C7: when the ')' closing a parenthesized expression or an argument list
\* is missing (what follows the inner expression is not ')', nor ',' in an
\* argument list; end of input included), the top-level parse around it
\* returns the null pointer: no tree, whatever was built before.
C7_MissingParenFails ==
  /\ (form.fam = "unclosed" /\ last.kind \in Parses /\ last.first) =>
       /\ last.node = nullptr
       /\ \E i \in 1..Len(last.log) : last.log[i].msg \in MissingParen
  /\ last.kind \in Parses =>
       \A i \in 1..Len(last.log) :
         last.log[i].msg \in MissingParen => last.node = nullptr

\* "3*f(1,1+x2 7": the argument list is not closed, inside a product.
C7_Witness ==
  /\ form = [fam |-> "unclosed", open |-> "call2", lead |-> "3*",
             ops |-> <<ASCII["+"]>>, tail |-> 3]
  /\ FirstForm("expr")
  /\ last.node = nullptr
  /\ last.log[1].msg = "Expected ')' or ',' in argument list"

\* C8: when a parse fails, no token is consumed after the mismatch was
\* reported: on return from the top-level parse, through all the rules the
\* failure came up through, the current token is the token that was current
\* when the error was reported.
C8_NoTokenConsumedAfterMismatch ==
  (last.kind \in Parses /\ last.node = nullptr) =>
    /\ Len(last.log) >= 1
    /\ last.parse_ntok = last.log[Len(last.log)].ntok
    /\ last.parse_tok = last.log[Len(last.log)].tok

\* "def h(a) f(1,1+x2;": the failure is reported four rules deep, nine
\* tokens after the 'def'.
C8_Witness ==
  /\ form = [fam |-> "unclosed", open |-> "call2", lead |-> "def",
             ops |-> <<ASCII["+"]>>, tail |-> 2]
  /\ FirstForm("def")
  /\ last.node = nullptr
  /\ last.parse_tok = ASCII[";"]
  /\ last.parse_ntok = last.log[1].ntok
  /\ last.parse_ntok > 8

\* The tokens of the text, as gettok delivers them to a reader that does
\* nothing else: the first n of them.
RECURSIVE Tokens(_, _)
Tokens(s, n) ==
  IF n = 0 THEN <<>>
  ELSE LET Rest(r) == <<r.ret>> \o Tokens(r.st, n - 1) IN Rest(gettok(s))
FirstTokens(n) ==
  Tokens([input |-> input, pos |-> 0, last_char |-> ASCII[" "], identifier_str |-> <<>>,
          num_val |-> [int |-> 0, frac |-> <<>>], eof_reads |-> 0,
          hang |-> FALSE], n)

\* C9: after a top-level parse that failed the driver discards exactly one
\* token, after one that succeeded none; so the token dispatched after a
\* failure is the one that follows the offending token in the text.
C9_OneTokenDiscardedOnFailure ==
  last.kind \in Parses =>
    /\ last.node = nullptr => last.ntok = last.parse_ntok + 1
    /\ last.node # nullptr => last.ntok = last.parse_ntok
    /\ (last.node = nullptr /\ last.parse_index <= Len(input)) =>
         LET Discarded(stream) ==
               /\ last.parse_tok = stream[last.parse_index]
               /\ ntokens = last.parse_index + 1
               /\ curr_token = stream[last.parse_index + 1]
         IN Discarded(FirstTokens(last.parse_index + 1))

\* ")1": the expression fails at ')', and the number is dispatched next.
C9_Witness ==
  /\ form = [fam |-> "free", pieces |-> <<Str(<<")">>), Str(<<"1">>)>>]
  /\ FirstForm("expr")
  /\ last.node = nullptr
  /\ last.parse_tok = ASCII[")"]
  /\ curr_token = token_number
  /\ ntokens = 2

\* C10: for every finite input MainLoop terminates: an iteration that
\* starts on a token other than end-of-input reads at least one token, so
\* the loop has returned after at most one iteration for each token of the
\* text and one for its end (a text has at most as many tokens as bytes);
\* and it returns only on the end-of-input token.
C10_MainLoopTerminates ==
  /\ last.kind \in Parses \cup {";"} => last.ntok >= 1
  /\ ready <= Len(input) + 2
  /\ pc = "done" => curr_token = token_eof

\* Where plain char is signed, MainLoop does return within that bound.
C10_TerminatesWhereCharIsSigned ==
  char_signed =>
    /\ ready <= Len(input) + 2
    /\ (pc = "loop" /\ ntokens > Len(input)) => curr_token = token_eof

\* C11: on a text of whitespace and comments only, the first call of gettok
\* returns, and with the end-of-input token; no other token is ever
\* delivered for such a text.
C11_BlankInputIsEndOfInput ==
  (form.fam = "blank" /\ pc # "main") =>
    /\ pc # "hung"
    /\ curr_token = token_eof

\* Where plain char is signed, it is so.
C11_EndOfInputWhereCharIsSigned ==
  char_signed => C11_BlankInputIsEndOfInput

\* The first call of gettok never returns: a comment at the end of the text.
C11_FirstCallHangs ==
  form.fam = "blank" /\ pc = "hung" /\ ntokens = 1

\* C12: a call of gettok that returns the end-of-input token does not call
\* getchar again once getchar has returned EOF; also where the end of the
\* text is reached inside a comment.
C12_NoReadAfterEndOfInput ==
  (pc # "main" /\ curr_token = token_eof) => eof_reads <= 1

\* In a text without comments it is so.
C12_NoReadAfterEndOfInputWithoutComments ==
  (\A i \in 1..Len(input) : input[i] # ASCII["#"]) => C12_NoReadAfterEndOfInput

\* The characters that gettok makes a token of by themselves: not
\* whitespace, not a letter, not a digit, not '.', not '#'.
SingleChars ==
  (0..255) \ ({9, 10, 11, 12, 13, 32} \cup (65..90) \cup (97..122) \cup (48..57)
                \cup {ASCII["."], ASCII["#"]})

\* C13: for a character that is none of whitespace, letter, digit, '.', '#',
\* gettok returns the token of that character (here: a value that is that
\* character as a char) and has read that character and the one after it;
\* the value is none of the five enumerators of Token.
C13_SingleCharToken ==
  (form.fam = "byte" /\ form.c \in SingleChars /\ last.kind = "main") =>
    /\ curr_token % 256 = form.c
    /\ pos = Len(input)
    /\ curr_token \notin
         {token_eof, token_def, token_extern, token_identifier, token_number}

\* For the characters 0..127, and for all where plain char is unsigned, the
\* token is the character itself.
C13_SingleCharTokenInRange ==
  (form.fam = "byte" /\ form.c \in SingleChars /\ last.kind = "main"
     /\ (form.c < 128 \/ ~char_signed)) =>
    /\ curr_token = form.c
    /\ pos = Len(input)

\* The byte 254 has been delivered as the keyword 'def'.
C13_ByteIsKeyword ==
  /\ form.fam = "byte" /\ form.c = 254
  /\ last.kind = "main"
  /\ curr_token = token_def

\* The byte 255 before a digit has been delivered as the end of the input.
C13_ByteIsEndOfInput ==
  /\ form = [fam |-> "byte", c |-> 255, alone |-> FALSE]
  /\ last.kind = "main"
  /\ curr_token = token_eof
  /\ pos < Len(input)

\* A run of the tokenizer alone, from its initial state on a text: the
\* result of its n-th call of gettok (n >= 1).
RECURSIVE RunOn(_, _)
RunOn(text, n) ==
  IF n = 1
    THEN gettok([input |-> text, pos |-> 0, last_char |-> ASCII[" "],
                 identifier_str |-> <<>>, num_val |-> [int |-> 0, frac |-> <<>>],
                 curr_token |-> 0, BinopPrecedence |-> <<>>, eof_reads |-> 0,
                 hang |-> FALSE, ntok |-> 0, log |-> <<>>])
    ELSE LET Again(r) == gettok(r.st) IN Again(RunOn(text, n - 1))
FreshRun(n) == RunOn(input, n)

\* The token, its payloads and the place in the text are those of r.
SameToken(r) ==
  /\ curr_token = r.ret
  /\ identifier_str = r.st.identifier_str
  /\ num_val = r.st.num_val
  /\ pos = r.st.pos
  /\ last_char = r.st.last_char

\* C14: the tokens are a function of the character stream alone: the n-th
\* token the program reads in main and in the parser, with its identifier
\* text and its number, is the n-th token of a run of the tokenizer alone on
\* the same text; and a call hangs in the one when it does in the other.
C14_TokensDependOnTextOnly ==
  (pc # "main" /\ ntokens <= Len(input) + 1) =>
    LET Agrees(r) ==
          /\ pc # "hung" => SameToken(r)
          /\ pc = "hung" <=> r.st.hang
    IN Agrees(FreshRun(ntokens))

\* "1+x2" has been parsed: four tokens read, the third with the text "x2".
C14_Witness ==
  /\ form = [fam |-> "chain", ops |-> <<ASCII["+"]>>]
  /\ last.kind = "expr"
  /\ ntokens = 4
  /\ identifier_str = Str(<<"x", "2">>)
  /\ FreshRun(3).ret = token_identifier
  /\ FreshRun(3).st.identifier_str = identifier_str

\* The operators of the BinaryExprAST nodes of a tree.
RECURSIVE Operators(_)
Operators(node) ==
  CASE node.type = "Binary" ->
         {node.Op} \cup Operators(node.LHS) \cup Operators(node.RHS)
    [] node.type = "Call" ->
         UNION { Operators(node.Args[i]) : i \in 1..Len(node.Args) }
    [] node.type = "Function" -> Operators(node.Body)
    [] OTHER -> {}

\* C15: the operator of every BinaryExprAST of a tree a top-level parse
\* returns is a character that has a strictly positive precedence in
\* BinopPrecedence: never a token that is no character, a character absent
\* from the table, or one that is in it with a precedence <= 0.
C15_OperatorsAreRegistered ==
  (last.kind \in {"def", "extern", "expr"} /\ last.node # nullptr) =>
    \A op \in Operators(last.node) :
      /\ isascii(op)
      /\ op \in DOMAIN BinopPrecedence
      /\ BinopPrecedence[op] > 0

\* "1=2=3": the lookup of '=' has put it in the table with precedence 0, and
\* the expression returned is the number 1 alone.
C15_Witness ==
  /\ form = [fam |-> "operator", c |-> ASCII["="]]
  /\ last.kind = "expr" /\ last.first
  /\ last.node = Anonymous(Num(1))
  /\ ASCII["="] \in DOMAIN BinopPrecedence
  /\ BinopPrecedence[ASCII["="]] = 0

\* C16: a rule that fails reports one error and returns at once, and the
\* rules it returns through report nothing more: a top-level parse that
\* fails has written exactly one error line, one that succeeds none.
C16_OneDiagnosticPerFailure ==
  last.kind \in {"def", "extern", "expr"} =>
    Len(last.log) = IF last.node = nullptr THEN 1 ELSE 0

\* "def h(a) f(1,1+x2 7": the failure in the argument list comes up through
\* the call, the expression and the definition with its one line.
C16_Witness ==
  /\ form = [fam |-> "unclosed", open |-> "call2", lead |-> "def",
             ops |-> <<ASCII["+"]>>, tail |-> 3]
  /\ last.kind = "def" /\ last.first
  /\ last.node = nullptr
  /\ last.log = << [msg |-> "Expected ')' or ',' in argument list",
                    tok |-> token_number, ntok |-> 12] >>

\* C17: gettok returns token_def (token_extern) exactly for the word "def"
\* ("extern"): a word is read up to the first character that is neither
\* letter nor digit, the whole of it is the identifier text, and any word
\* other than the two keywords is token_identifier.
C17_KeywordIsTheWholeWord ==
  (form.fam = "word" /\ last.kind = "main") =>
    /\ identifier_str = form.word
    /\ pos = Len(form.word) + (IF form.end = <<>> THEN 0 ELSE 1)
    /\ curr_token = token_def <=> form.word = str_def
    /\ curr_token = token_extern <=> form.word = str_extern
    /\ curr_token \in {token_def, token_extern, token_identifier}

\* "def1(" has been read as the identifier def1.
C17_Witness ==
  /\ form = [fam |-> "word", word |-> str_def \o Str(<<"1">>), end |-> Str(<<"(">>)]
  /\ last.kind = "main"
  /\ curr_token = token_identifier
  /\ identifier_str = Str(<<"d", "e", "f", "1">>)
  /\ last_char = ASCII["("]

\* A text without its comments: each from '#' up to, not including, the
\* next '\n' or '\r' or the end of the text.
RECURSIVE Uncommented(_, _)
Uncommented(text, in_comment) ==
  IF text = <<>> THEN <<>>
  ELSE IF Head(text) \in {ASCII["\n"], ASCII["\r"]}
    THEN <<Head(text)>> \o Uncommented(Tail(text), FALSE)
  ELSE IF in_comment \/ Head(text) = ASCII["#"]
    THEN Uncommented(Tail(text), TRUE)
  ELSE <<Head(text)>> \o Uncommented(Tail(text), FALSE)

\* What a call of gettok delivers: whether it returns, the token, and the
\* identifier text and the number with it.
Delivered(r) ==
  [hang |-> r.st.hang, ret |-> r.ret, identifier_str |-> r.st.identifier_str,
   num_val |-> r.st.num_val]

\* C18: comments are transparent: the tokens of a text, each with its
\* identifier text and number, are the tokens of the text without its
\* comments, and so is the token the program is at.
C18_CommentsAreTransparent ==
  (form.fam \in {"comment", "blank"} /\ pc # "main"
     /\ ntokens <= Len(input) + 1) =>
    /\ \A n \in 1..(Len(input) + 1) :
         Delivered(RunOn(input, n)) = Delivered(RunOn(Uncommented(input, FALSE), n))
    /\ pc = "hung" <=> RunOn(Uncommented(input, FALSE), ntokens).st.hang
    /\ pc # "hung" => curr_token = RunOn(Uncommented(input, FALSE), ntokens).ret

\* Where plain char is signed, they are.
C18_TransparentWhereCharIsSigned ==
  char_signed => C18_CommentsAreTransparent

\* And where every comment ends in a line break, on every build.
C18_TransparentWhereCommentsAreClosed ==
  (\A i \in 1..Len(input) :
     input[i] = ASCII["#"] =>
       \E j \in (i + 1)..Len(input) : input[j] \in {ASCII["\n"], ASCII["\r"]})
    => C18_CommentsAreTransparent

\* C19: the end of the input is absorbing: once a call of gettok has
\* returned token_eof, every later call returns token_eof; so does the
\* call that skips a token after a parse that failed on token_eof.
C19_EndOfInputIsAbsorbing ==
  (pc # "main" /\ ntokens <= Len(input) + 1) =>
    /\ \A n \in 1..ntokens :
         FreshRun(n).ret = token_eof => FreshRun(n + 1).ret = token_eof
    /\ (last.kind \in {"def", "extern", "expr"} /\ last.node = nullptr
          /\ last.parse_tok = token_eof) => curr_token = token_eof

\* In a text without the byte 255 it is.
C19_AbsorbingWithoutByte255 ==
  (\A i \in 1..Len(input) : input[i] # 255) => C19_EndOfInputIsAbsorbing

\* "(#" 255 "a": the expression in the parentheses has failed on token_eof
\* and the token skipped to is the identifier a.
C19_TokenAfterEndOfInput ==
  /\ input = Str(<<"(", "#">>) \o <<255>> \o Str(<<"a">>)
  /\ last.kind = "expr"
  /\ last.parse_tok = token_eof
  /\ curr_token = token_identifier

\* The number of tokens of a text of forms up to the end of its k-th form.
RECURSIVE FormEnd(_, _)
FormEnd(f, k) ==
  IF k = 0 THEN 0
  ELSE FormEnd(f, k - 1) + (IF f.semi /\ k > 1 THEN 1 ELSE 0)
         + Items[f.items[k]].ntok

\* The token that follows the k-th form of a text of forms.
FormFollower(f, k) ==
  IF f.semi THEN ASCII[";"]
  ELSE IF k < Len(f.items) THEN Items[f.items[k + 1]].first
  ELSE ToChar(EOF)

\* The number of tokens of a text of forms, and one for the end of the text.
FormTokens(f) ==
  FormEnd(f, Len(f.items)) + (IF f.semi THEN 1 ELSE 0) + 1

\* C20: after a top-level parse that succeeded, the current token is the
\* first one after the form and it is the only token read beyond the form:
\* in a text of well-formed forms every parse that ends within the text
\* succeeds, the k-th on exactly the tokens of the k-th form, so that none
\* is skipped or parsed twice.
C20_OneTokenOfLookahead ==
  /\ (form.fam = "sequence" /\ last.kind \in {"def", "extern", "expr"}
        /\ ntokens <= FormTokens(form)) =>
       /\ last.node # nullptr
       /\ \E k \in 1..Len(form.items) :
            /\ ntokens = FormEnd(form, k) + 1
            /\ last.kind = Items[form.items[k]].kind
            /\ last.ntok = Items[form.items[k]].ntok
            /\ curr_token = FormFollower(form, k)
  /\ (form.fam = "sequence" /\ pc = "done") => ntokens = FormTokens(form)
  /\ (last.kind \in {"def", "extern", "expr"} /\ last.node # nullptr
        /\ ntokens <= Len(input) + 1) =>
       /\ last.ntok = last.parse_ntok
       /\ curr_token = FreshRun(ntokens).ret

\* "def f(a b) a+1 extern g() x*(2) ": the extern has been parsed, and the
\* current token is the identifier x, the fourteenth token read.
C20_Witness ==
  /\ form = [fam |-> "sequence", items |-> <<4, 5, 2>>, semi |-> FALSE]
  /\ last.kind = "extern"
  /\ last.node = PrototypeAST(Str(<<"g">>), <<>>)
  /\ curr_token = token_identifier
  /\ identifier_str = Str(<<"x">>)
  /\ ntokens = 14

====
